---- MODULE Spec2Model ----
(***************************************************************************)
(* The AutoLab batch client (App.tsx): the item collection `files`, the    *)
(* single-flight flag `isProcessing`, the batch passes started by          *)
(* processAll (each an async function suspended at its awaits), the        *)
(* retry/backoff loop of generateOutput, the snapshot capture, and the     *)
(* packaging handler downloadAll with its delayed reset.                   *)
(***************************************************************************)
EXTENDS Integers, Sequences, FiniteSets, TLC

VARIABLES
    files,          \* useState<ProgramFile[]>: the batch, in enqueue order
    isProcessing,   \* useState(false): the single-flight flag
    pass,           \* the invocations of processAll that are in flight
    zips,           \* invocations of downloadAll awaiting zip.generateAsync
    timers,         \* pending setTimeout(..., 1000) resets of downloadAll
    reads,          \* FileReader.readAsText calls whose onload has not fired
    naming,         \* folderPattern, screenshotPattern, startIndex,
                    \* isNumberingEnabled
    formatted,      \* a call of formatName: its arguments and its result
    alerted         \* the last packaging ended in the failure alert

vars ==
    <<files, isProcessing, pass, zips, timers, reads, naming, formatted,
      alerted>>

---------------------------------------------------------------------------
(* Bounds of the model *)

MaxFiles == 2       \* items in the collection
MaxLoad == 3        \* items in the collection plus passes in flight
MaxBatchFiles == 3  \* items in the collection, when nothing is packaged
MaxIds == 3         \* distinct values Math.random() can produce for an id
MaxPasses == 2      \* invocations of processAll in flight at once
MaxDownloads == 1   \* invocations of downloadAll not yet reset
MaxUploadFiles == 2 \* items in the collection, when reads are pending
MaxZipFiles == 2    \* items in the collection, when it is packaged
MaxStartIndex == 1  \* the number typed into Start Numbering From
MaxChunks == 2      \* pieces a typed pattern is put together from

(* Program constants *)

maxAttempts == 4
baseDelayMs == 1500
RATE_LIMIT == 429

Ids == 1..MaxIds
PassIds == 1..MaxPasses

---------------------------------------------------------------------------
(* types.ts: FileStatus and ProgramFile *)

PENDING == "pending"
RUNNING == "running"
COMPLETED == "completed"
ERROR == "error"

FileStatus == {PENDING, RUNNING, COMPLETED, ERROR}

NoOutput == "undefined"                 \* ProgramFile.output is optional

NoOutputGenerated == "No output generated."
ConsoleWasCleared == "Console was cleared."
QuotaDiagnostic == "Execution Error: Gemini API quota/rate limit exceeded (429)."
GenericDiagnostic == "Execution Error: Failed to generate output via AI."

Texts == {"stdout", ""}                 \* response.text: some text, or empty
BatchTexts == {"stdout"}

(* Strings that matter character by character (file names, naming        *)
(* patterns, archive paths) are sequences of symbols: the brackets, the    *)
(* dot, the separators, and words, each word standing for its characters.  *)

\* File.name of the files a user picks
PyName == <<"a", ".", "py">>
HtmlName == <<"a", ".", "html">>
BatchNames == {PyName}
RetryNames == {PyName, HtmlName}

\* The positions of the dots of a name
Dots(name) == {i \in 1..Len(name) : name[i] = "."}

\* name.split('.').pop(): what follows the last dot, the whole name when it
\* has none
LastPart(name) ==
    IF Dots(name) = {} THEN name
    ELSE LET last == CHOOSE i \in Dots(name) : \A j \in Dots(name) : j <= i
         IN  SubSeq(name, last + 1, Len(name))

\* file.name.split('.').pop()?.toLowerCase() || 'text'; an extension of
\* several symbols is a language that is not html
languageOf(name) ==
    IF LastPart(name) = <<>> THEN "text"
    ELSE IF Len(LastPart(name)) = 1 THEN LastPart(name)[1]
    ELSE "other"

EmptyContent == 0                       \* content: ''

\* What FileReader reads from the file picked for the item `id`
ContentOf(id) == id

NewFile(id, name) ==
    [id |-> id, name |-> name, content |-> EmptyContent,
     language |-> languageOf(name), status |-> PENDING,
     output |-> NoOutput, imageBlob |-> FALSE]

\* reader.onload: the first item with the file's name and no content gets
\* the content
onload(fs, name, content) ==
    LET waiting == {i \in 1..Len(fs) :
                      fs[i].name = name /\ fs[i].content = EmptyContent}
    IN  IF waiting = {} THEN fs
        ELSE LET match == CHOOSE i \in waiting : \A j \in waiting : i <= j
             IN  [fs EXCEPT ![match].content = content]

\* An item whose file has been read
LoadedFile(id, name) == [NewFile(id, name) EXCEPT !.content = ContentOf(id)]

\* useState('[index]_[name]'), useState('[name]_output'), useState(1),
\* useState(true)
DefaultNaming ==
    [folderPattern |-> <<"[", "index", "]", "_", "[", "name", "]">>,
     screenshotPattern |-> <<"[", "name", "]", "_", "output">>,
     startIndex |-> 1,
     isNumberingEnabled |-> TRUE]

NoCall == [none |-> TRUE]               \* formatName not called

---------------------------------------------------------------------------
(* formatName (App.tsx and zipService.ts, the same text) *)

\* file.name.substring(0, file.name.lastIndexOf('.')) || file.name
nameWithoutExt(name) ==
    IF Dots(name) = {} THEN name
    ELSE LET last == CHOOSE i \in Dots(name) : \A j \in Dots(name) : j <= i
         IN  IF last = 1 THEN name ELSE SubSeq(name, 1, last - 1)

\* file.name.split('.').pop() || ''
ext(name) == LastPart(name)

\* A replacement string as String.prototype.replace reads it: $& stands
\* for the matched text
RECURSIVE Expand(_, _)
Expand(replacement, matched) ==
    IF replacement = <<>> THEN <<>>
    ELSE (IF Head(replacement) = "$&" THEN matched ELSE <<Head(replacement)>>)
            \o Expand(Tail(replacement), matched)

\* str.replace(/placeholder/g, replacement): every occurrence, left to
\* right, the text put in is not scanned again
RECURSIVE ReplaceAll(_, _, _)
ReplaceAll(str, placeholder, replacement) ==
    IF Len(str) < Len(placeholder) THEN str
    ELSE IF SubSeq(str, 1, Len(placeholder)) = placeholder
         THEN Expand(replacement, placeholder)
                 \o ReplaceAll(SubSeq(str, Len(placeholder) + 1, Len(str)),
                               placeholder, replacement)
         ELSE <<Head(str)>> \o ReplaceAll(Tail(str), placeholder, replacement)

NamePlaceholder == <<"[", "name", "]">>
ExtPlaceholder == <<"[", "ext", "]">>
FullPlaceholder == <<"[", "full", "]">>
IndexPlaceholder == <<"[", "index", "]">>

Separators == {"_", "-", " "}           \* [_\-\s]

\* str.replace(/\[index\]/g, ''): the separator stays
RemoveIndex_KeepSeparator(str) == ReplaceAll(str, IndexPlaceholder, <<>>)

\* str.replace(/\[index\][_\-\s]?/g, '')
RECURSIVE RemoveIndex(_)
RemoveIndex(str) ==
    IF Len(str) < 3 THEN str
    ELSE IF SubSeq(str, 1, 3) = IndexPlaceholder
         THEN IF Len(str) > 3 /\ str[4] \in Separators
              THEN RemoveIndex(SubSeq(str, 5, Len(str)))
              ELSE RemoveIndex(SubSeq(str, 4, Len(str)))
         ELSE <<Head(str)>> \o RemoveIndex(Tail(str))

\* (startIndex + index).toString(), one symbol
Numeral(n) == <<ToString(n)>>

\* pattern.replace(/\[name\]/g, ...).replace(/\[ext\]/g, ...)
\*        .replace(/\[full\]/g, ...)
withNames(pattern, name) ==
    ReplaceAll(
        ReplaceAll(
            ReplaceAll(pattern, NamePlaceholder, nameWithoutExt(name)),
            ExtPlaceholder, ext(name)),
        FullPlaceholder, name)

formatName(pattern, name, index, startIndex, isNumberingEnabled) ==
    IF isNumberingEnabled
    THEN ReplaceAll(withNames(pattern, name), IndexPlaceholder,
                    Numeral(startIndex + index))
    ELSE RemoveIndex(withNames(pattern, name))

---------------------------------------------------------------------------
(* The zip downloadAll fills before it awaits generateAsync, a local of    *)
(* the handler.  JSZip as far as downloadAll uses it: the folders made and *)
(* the entries written, a later entry at the same path replacing the       *)
(* earlier one.                                                            *)

EmptyZip == [folders |-> {}, entries |-> {}]

Slash == "/"

\* The folders a path names: itself and every parent, lab/a gives lab
\* and lab/a
Parents(path) ==
    {SubSeq(path, 1, k - 1) : k \in {i \in 1..Len(path) : path[i] = Slash}}
        \cup {path}

\* zip.folder(folderName) adds nothing
WithFolder_None(zip, folderName) == zip

\* zip.folder(folderName): the zip itself when the name is empty,
\* otherwise the folder and its parents are made
WithFolder(zip, folderName) ==
    IF folderName = <<>> THEN zip
    ELSE [zip EXCEPT !.folders = @ \cup Parents(folderName)]

\* folder.file(name, data)
WithEntry(zip, folderName, name, data) ==
    [zip EXCEPT !.entries =
        {e \in @ : ~(e.folder = folderName /\ e.name = name)}
            \cup {[folder |-> folderName, name |-> name, data |-> data]}]

PngSuffix == <<".", "png">>

\* One turn of the loop that writes the screenshot of every item
AddToZip_AlwaysPng(zip, file, index, config) ==
    LET folderName ==
            formatName(config.folderPattern, file.name, index,
                       config.startIndex, config.isNumberingEnabled)
        screenshotName ==
            formatName(config.screenshotPattern, file.name, index,
                       config.startIndex, config.isNumberingEnabled)
    IN  WithEntry(
            WithEntry(WithFolder(zip, folderName), folderName, file.name,
                      [kind |-> "content", of |-> file.id,
                       content |-> file.content]),
            folderName, screenshotName \o PngSuffix,
            [kind |-> "imageBlob", of |-> file.id, content |-> EmptyContent])

\* One turn of files.forEach((file, index) => ...), index counted from 0
AddToZip(zip, file, index, config) ==
    LET folderName ==
            formatName(config.folderPattern, file.name, index,
                       config.startIndex, config.isNumberingEnabled)
        screenshotName ==
            formatName(config.screenshotPattern, file.name, index,
                       config.startIndex, config.isNumberingEnabled)
        withCode ==
            WithEntry(WithFolder(zip, folderName), folderName, file.name,
                      [kind |-> "content", of |-> file.id,
                       content |-> file.content])
    IN  IF file.imageBlob
        THEN WithEntry(withCode, folderName, screenshotName \o PngSuffix,
                       [kind |-> "imageBlob", of |-> file.id,
                        content |-> EmptyContent])
        ELSE withCode

\* files.forEach over the first n items
RECURSIVE FillZip(_, _, _)
FillZip(fs, n, config) ==
    IF n = 0 THEN EmptyZip
    ELSE AddToZip(FillZip(fs, n - 1, config), fs[n], n - 1, config)

---------------------------------------------------------------------------
(* Errors thrown by ai.models.generateContent.  A field is absent (null or *)
(* undefined), a number, or a value of another type; toString records what *)
(* String(err) contains.                                                    *)

Absent == [kind |-> "absent", num |-> 0]
Num(n) == [kind |-> "number", num |-> n]
NonNumber == [kind |-> "string", num |-> 0]
OtherNumber == Num(500)                 \* a number that is not 429

FieldValues == {Absent, Num(RATE_LIMIT), OtherNumber, NonNumber}

AllErrors ==
    [status : FieldValues, code : FieldValues, response_status : FieldValues,
     error_code : FieldValues, error_status : FieldValues,
     has429 : BOOLEAN, hasResourceExhausted : BOOLEAN]

PlainError ==
    [status |-> Absent, code |-> Absent, response_status |-> Absent,
     error_code |-> Absent, error_status |-> Absent,
     has429 |-> FALSE, hasResourceExhausted |-> FALSE]

NoErr == [none |-> TRUE]                \* nothing was thrown

\* The errors a batch run meets: a rate limit and a server error.
BatchErrors ==
    { [PlainError EXCEPT !.status = Num(RATE_LIMIT)],
      [PlainError EXCEPT !.status = OtherNumber] }

\* a ?? b
Coalesce(a, b) == IF a.kind # "absent" THEN a ELSE b

\* only the first field of the chain is read
getErrorStatus_StatusOnly(error) ==
    IF error.status.kind = "number" THEN error.status ELSE Absent

getErrorStatus(error) ==
    LET direct ==
            Coalesce(error.status,
            Coalesce(error.code,
            Coalesce(error.response_status,
            Coalesce(error.error_code, error.error_status))))
    IN  IF direct.kind = "number" THEN direct ELSE Absent

Is429(status) == status.kind = "number" /\ status.num = RATE_LIMIT

\* generateOutput, the inner catch
isRateLimited(err) ==
    \/ Is429(getErrorStatus(err))
    \/ err.has429
    \/ err.hasResourceExhausted

\* generateOutput, the outer catch
Diagnostic(error) ==
    IF Is429(getErrorStatus(error)) \/ error.hasResourceExhausted
    THEN QuotaDiagnostic
    ELSE GenericDiagnostic

RECURSIVE Pow2(_)
Pow2(n) == IF n <= 0 THEN 1 ELSE 2 * Pow2(n - 1)

\* the exponent off by one: 3000, 6000, 12000
delayMs_OffByOne(attempt) == baseDelayMs * Pow2(attempt)

\* Math.round(1500 * Math.pow(2, attempt - 1))
delayMs(attempt) == baseDelayMs * Pow2(attempt - 1)

\* response.text || (isHtml ? "Console was cleared." : "No output generated.")
TextOrDefault(text, isHtml) ==
    IF text # "" THEN text
    ELSE IF isHtml THEN ConsoleWasCleared ELSE NoOutputGenerated

---------------------------------------------------------------------------
(* setFiles(prev => prev.map(f => f.id === fileId ? {...f, ...} : f)) *)

\* the write-back that also takes every waiting item
MarkRunning_AllPending(fs, fileId) ==
    [i \in 1..Len(fs) |->
        IF fs[i].id = fileId \/ fs[i].status = PENDING
        THEN [fs[i] EXCEPT !.status = RUNNING] ELSE fs[i]]

MarkRunning(fs, fileId) ==
    [i \in 1..Len(fs) |->
        IF fs[i].id = fileId THEN [fs[i] EXCEPT !.status = RUNNING] ELSE fs[i]]

\* the write-back puts the item back when it finds none to update
MarkCompleted_Upsert(fs, fileId, output) ==
    IF \E i \in 1..Len(fs) : fs[i].id = fileId
    THEN [i \in 1..Len(fs) |->
            IF fs[i].id = fileId
            THEN [fs[i] EXCEPT !.output = output, !.status = COMPLETED]
            ELSE fs[i]]
    ELSE Append(fs, [LoadedFile(fileId, PyName) EXCEPT
                        !.status = COMPLETED, !.output = output])

\* the write-back sets the status and forgets the output
MarkCompleted_StatusOnly(fs, fileId, output) ==
    [i \in 1..Len(fs) |->
        IF fs[i].id = fileId THEN [fs[i] EXCEPT !.status = COMPLETED] ELSE fs[i]]

MarkCompleted(fs, fileId, output) ==
    [i \in 1..Len(fs) |->
        IF fs[i].id = fileId
        THEN [fs[i] EXCEPT !.output = output, !.status = COMPLETED]
        ELSE fs[i]]

AttachImage(fs, fileId) ==
    [i \in 1..Len(fs) |->
        IF fs[i].id = fileId THEN [fs[i] EXCEPT !.imageBlob = TRUE] ELSE fs[i]]

MarkError(fs, fileId) ==
    [i \in 1..Len(fs) |->
        IF fs[i].id = fileId THEN [fs[i] EXCEPT !.status = ERROR] ELSE fs[i]]

IdsOf(fs) == {fs[i].id : i \in 1..Len(fs)}

\* What a pass keeps of a file object of its render: id, language and
\* content
RECURSIVE Snapshot(_)
Snapshot(fs) ==
    IF fs = <<>> THEN <<>>
    ELSE <<[id |-> Head(fs).id, language |-> Head(fs).language,
            content |-> Head(fs).content]>>
             \o Snapshot(Tail(fs))

NotCompleted(f) == f.status # COMPLETED

\* the filter of processAll dropped: every item is taken up again
filesToProcess_All(fs) == Snapshot(fs)

\* the filtered list taken last item first
RECURSIVE Reverse(_)
Reverse(q) == IF q = <<>> THEN <<>> ELSE Append(Reverse(Tail(q)), Head(q))

filesToProcess_Reversed(fs) == Reverse(Snapshot(SelectSeq(fs, NotCompleted)))

\* files.filter(f => f.status !== FileStatus.COMPLETED)
filesToProcess(fs) == Snapshot(SelectSeq(fs, NotCompleted))

\* terminalRefs.current[fileId]: the element of a rendered item with this id
terminalEl(fileId) == fileId \in IdsOf(files)

---------------------------------------------------------------------------
(* A pass: one invocation of processAll, suspended at one of its awaits.   *)
(*   call     awaiting ai.models.generateContent (attempt `attempt`)       *)
(*   backoff  awaiting sleep(delayMs) after a rate-limited failure         *)
(*   settle   awaiting the 800 ms timeout after the output write-back      *)
(*   capture  awaiting toPng / fetch / blob                                *)
(*   pace     awaiting sleep(700) after processSingleFile returned         *)
(* filesToProcess holds what the for-of loop has not finished: its head is *)
(* the file being processed.                                               *)

Idle ==
    [pc |-> "idle", filesToProcess |-> <<>>, prompt |-> EmptyContent,
     attempt |-> 0, delays |-> <<>>, err |-> NoErr, output |-> NoOutput]

InFlight == {p \in PassIds : pass[p].pc # "idle"}

fileId(p) == Head(pass[p].filesToProcess).id

\* const isHtml = file.language === 'html'
isHtml(p) == Head(pass[p].filesToProcess).language = "html"

Init ==
    /\ files = <<>>
    /\ isProcessing = FALSE
    /\ pass = [p \in PassIds |-> Idle]
    /\ zips = 0
    /\ timers = 0
    /\ reads = {}
    /\ naming = DefaultNaming
    /\ formatted = NoCall
    /\ alerted = FALSE

\* processSingleFile up to its first await: mark RUNNING, build the prompt
\* from the content of the render's file object, start attempt 1
BeginFile(p, list) ==
    /\ files' = MarkRunning(files, Head(list).id)
    /\ pass' = [pass EXCEPT ![p] =
                   [pc |-> "call", filesToProcess |-> list,
                    prompt |-> Head(list).content,
                    attempt |-> 1, delays |-> <<>>, err |-> NoErr,
                    output |-> NoOutput]]

FreeSlot == CHOOSE p \in PassIds \ InFlight : \A q \in PassIds \ InFlight : p <= q

\* processAll without its `if (isProcessing) return`
processAll_NoGuard ==
    /\ filesToProcess(files) # <<>>
    /\ InFlight # PassIds
    /\ isProcessing' = TRUE
    /\ BeginFile(FreeSlot, filesToProcess(files))
    /\ UNCHANGED <<zips, timers, reads, naming, formatted, alerted>>

processAll ==
    IF isProcessing
    THEN UNCHANGED vars
    ELSE IF filesToProcess(files) = <<>>
         THEN UNCHANGED vars        \* setIsProcessing(true); setIsProcessing(false)
         ELSE /\ InFlight # PassIds
              /\ isProcessing' = TRUE
              /\ BeginFile(FreeSlot, filesToProcess(files))
              /\ UNCHANGED <<zips, timers, reads, naming, formatted, alerted>>

\* the outer catch of generateOutput dropped: a failure leaves
\* processSingleFile before its write-back
Resolve_Throw(p, output, err) ==
    IF err = NoErr
    THEN /\ files' = MarkCompleted(files, fileId(p), output)
         /\ pass' = [pass EXCEPT ![p].pc = "settle", ![p].output = output,
                                  ![p].err = err]
    ELSE /\ pass' = [pass EXCEPT ![p].pc = "pace", ![p].err = err]
         /\ UNCHANGED files

\* the output write-back left out before the capture
Resolve_NoWriteBack(p, output, err) ==
    /\ pass' = [pass EXCEPT ![p].pc = "settle", ![p].output = output, ![p].err = err]
    /\ UNCHANGED files

\* generateOutput returned `output`; processSingleFile writes it back
Resolve(p, output, err) ==
    /\ files' = MarkCompleted(files, fileId(p), output)
    /\ pass' = [pass EXCEPT ![p].pc = "settle", ![p].output = output, ![p].err = err]

CallOk(p, text) ==
    /\ pass[p].pc = "call"
    /\ Resolve(p, TextOrDefault(text, isHtml(p)), NoErr)
    /\ UNCHANGED <<isProcessing, zips, timers, reads, naming, formatted, alerted>>

\* the classification dropped: every failure is retried
CallFail_RetryAll(p, err) ==
    /\ pass[p].pc = "call"
    /\ IF pass[p].attempt = maxAttempts
       THEN Resolve(p, Diagnostic(err), err)
       ELSE /\ pass' = [pass EXCEPT ![p].pc = "backoff", ![p].err = err,
                           ![p].delays = Append(@, delayMs(pass[p].attempt))]
            /\ UNCHANGED files
    /\ UNCHANGED <<isProcessing, zips, timers, reads, naming, formatted, alerted>>

CallFail(p, err) ==
    /\ pass[p].pc = "call"
    /\ IF ~isRateLimited(err) \/ pass[p].attempt = maxAttempts
       THEN Resolve(p, Diagnostic(err), err)
       ELSE /\ pass' = [pass EXCEPT ![p].pc = "backoff", ![p].err = err,
                           ![p].delays = Append(@, delayMs(pass[p].attempt))]
            /\ UNCHANGED files
    /\ UNCHANGED <<isProcessing, zips, timers, reads, naming, formatted, alerted>>

BackoffDone(p) ==
    /\ pass[p].pc = "backoff"
    /\ pass' = [pass EXCEPT ![p].pc = "call", ![p].attempt = @ + 1, ![p].err = NoErr]
    /\ UNCHANGED <<files, isProcessing, zips, timers, reads, naming, formatted, alerted>>

SettleDone(p) ==
    /\ pass[p].pc = "settle"
    /\ pass' = [pass EXCEPT ![p].pc = IF terminalEl(fileId(p)) THEN "capture" ELSE "pace",
                            ![p].attempt = 0, ![p].delays = <<>>,
                            ![p].err = NoErr, ![p].output = NoOutput]
    /\ UNCHANGED <<files, isProcessing, zips, timers, reads, naming, formatted, alerted>>

CaptureOk(p) ==
    /\ pass[p].pc = "capture"
    /\ files' = AttachImage(files, fileId(p))
    /\ pass' = [pass EXCEPT ![p].pc = "pace"]
    /\ UNCHANGED <<isProcessing, zips, timers, reads, naming, formatted, alerted>>

\* the catch around the capture dropped: the throw ends the pass
CaptureFail_Abort(p) ==
    /\ pass[p].pc = "capture"
    /\ pass' = [pass EXCEPT ![p] = Idle]
    /\ UNCHANGED <<files, isProcessing, zips, timers, reads, naming, formatted, alerted>>

CaptureFail(p) ==
    /\ pass[p].pc = "capture"
    /\ files' = MarkError(files, fileId(p))
    /\ pass' = [pass EXCEPT ![p].pc = "pace"]
    /\ UNCHANGED <<isProcessing, zips, timers, reads, naming, formatted, alerted>>

PaceDone(p) ==
    /\ pass[p].pc = "pace"
    /\ IF Len(pass[p].filesToProcess) > 1
       THEN /\ BeginFile(p, Tail(pass[p].filesToProcess))
            /\ UNCHANGED isProcessing
       ELSE /\ pass' = [pass EXCEPT ![p] = Idle]
            /\ isProcessing' = FALSE
            /\ UNCHANGED files
    /\ UNCHANGED <<zips, timers, reads, naming, formatted, alerted>>

---------------------------------------------------------------------------
(* The user's operations *)

\* Identifiers an item, a pass in flight or a pending read holds
UsedIds ==
    IdsOf(files) \cup {r.id : r \in reads} \cup
    UNION {{pass[p].filesToProcess[i].id : i \in 1..Len(pass[p].filesToProcess)}
           : p \in PassIds}

\* Math.random().toString(36).substring(7) when it collides with no identifier
\* in use: every unused value behaves alike, the least stands for them all
FreshIds == {i \in Ids \ UsedIds : \A j \in Ids \ UsedIds : i <= j}

\* ... and when it may collide
RandomIds == UsedIds \cup FreshIds

\* one file chosen; its id is Math.random().toString(36).substring(7); the
\* item is appended with content '' and the file's read is started
handleFileUpload(id, name) ==
    /\ files' = Append(files, NewFile(id, name))
    /\ reads' = reads \cup {[id |-> id, name |-> name]}
    /\ UNCHANGED <<isProcessing, pass, zips, timers, naming, formatted, alerted>>

\* The file objects of a pass's render that are still the objects of the
\* collection: those of the items the pass has not started yet.  onload
\* assigns match.content on the object itself, so the pass sees it.
Shared(p, k, id) ==
    k > 1 /\ pass[p].filesToProcess[k].id = id

\* reader.onload of the file picked for the item r.id
ReadDone(r) ==
    /\ r \in reads
    /\ reads' = reads \ {r}
    /\ files' = onload(files, r.name, ContentOf(r.id))
    /\ pass' = [p \in PassIds |->
                  [pass[p] EXCEPT !.filesToProcess =
                      [k \in 1..Len(pass[p].filesToProcess) |->
                          IF \E i \in 1..Len(files) :
                                /\ files'[i] # files[i]
                                /\ Shared(p, k, files[i].id)
                          THEN [pass[p].filesToProcess[k] EXCEPT
                                   !.content = ContentOf(r.id)]
                          ELSE pass[p].filesToProcess[k]]]]
    /\ UNCHANGED <<isProcessing, zips, timers, naming, formatted, alerted>>

\* An upload whose read is over before anything else happens
UploadAndRead(id, name) ==
    /\ files' = onload(Append(files, NewFile(id, name)), name, ContentOf(id))
    /\ UNCHANGED <<isProcessing, pass, zips, timers, reads, naming, formatted,
                   alerted>>

removeFile(id) ==
    /\ id \in IdsOf(files)
    /\ files' = SelectSeq(files, LAMBDA f : f.id # id)
    /\ UNCHANGED <<isProcessing, pass, zips, timers, reads, naming, formatted,
                   alerted>>

clearAll ==
    /\ files # <<>>
    /\ files' = <<>>
    /\ UNCHANGED <<isProcessing, pass, zips, timers, reads, naming, formatted,
                   alerted>>

HasImage == \E i \in 1..Len(files) : files[i].imageBlob

\* The Package Zip button is disabled unless some item has an image and
\* isProcessing is false
downloadAll ==
    /\ HasImage /\ ~isProcessing
    /\ zips + timers < MaxDownloads
    /\ zips' = zips + 1
    /\ alerted' = FALSE
    /\ UNCHANGED <<files, isProcessing, pass, timers, reads, naming, formatted>>

ZipOk ==
    /\ zips > 0
    /\ zips' = zips - 1
    /\ timers' = timers + 1
    /\ UNCHANGED <<files, isProcessing, pass, reads, naming, formatted, alerted>>

\* A failed packaging that runs the reset all the same
ZipFail_ClearsBatch ==
    /\ zips > 0
    /\ zips' = zips - 1
    /\ alerted' = TRUE
    /\ files' = <<>>
    /\ isProcessing' = FALSE
    /\ UNCHANGED <<pass, timers, reads, naming, formatted>>

ZipFail ==
    /\ zips > 0
    /\ zips' = zips - 1
    /\ alerted' = TRUE
    /\ UNCHANGED <<files, isProcessing, pass, timers, reads, naming, formatted>>

ResetAfterDownload ==
    /\ timers > 0
    /\ timers' = timers - 1
    /\ files' = <<>>
    /\ isProcessing' = FALSE
    /\ UNCHANGED <<pass, zips, reads, naming, formatted, alerted>>

---------------------------------------------------------------------------
PassStep(T, E) ==
    \E p \in PassIds :
        \/ \E text \in T : CallOk(p, text)
        \/ pass[p].pc = "call" /\ \E err \in E : CallFail(p, err)
        \/ BackoffDone(p)
        \/ SettleDone(p)
        \/ CaptureOk(p)
        \/ CaptureFail(p)
        \/ PaceDone(p)

Load == Len(files) + Cardinality(InFlight)

\* An upload whose identifier may collide with one in use
Upload ==
    \E id \in RandomIds, name \in BatchNames :
        Len(files) < MaxFiles /\ Load < MaxLoad /\ UploadAndRead(id, name)

StartBatch == (isProcessing \/ Load < MaxLoad) /\ processAll

Next ==
    \/ Upload
    \/ \E id \in Ids : removeFile(id)
    \/ clearAll
    \/ StartBatch
    \/ PassStep(BatchTexts, BatchErrors)
    \/ downloadAll
    \/ ZipOk
    \/ ZipFail
    \/ ResetAfterDownload

Spec == Init /\ [][Next]_vars

(* Batch runs with uploads and removals, nothing packaged, no identifier   *)
(* drawn twice.                                                            *)
UploadFresh ==
    \E id \in FreshIds, name \in BatchNames :
        Len(files) < MaxBatchFiles /\ UploadAndRead(id, name)

NextBatch ==
    \/ UploadFresh
    \/ \E id \in Ids : removeFile(id)
    \/ clearAll
    \/ processAll
    \/ PassStep(BatchTexts, BatchErrors)

SpecBatch == Init /\ [][NextBatch]_vars

\* Every remote call, capture and timer a pass awaits eventually returns
PassReturns(p) ==
    \/ \E text \in BatchTexts : CallOk(p, text)
    \/ \E err \in BatchErrors : CallFail(p, err)
    \/ BackoffDone(p)
    \/ SettleDone(p)
    \/ CaptureOk(p)
    \/ CaptureFail(p)
    \/ PaceDone(p)

SpecBatchFair == SpecBatch /\ \A p \in PassIds : WF_vars(PassReturns(p))

(* Batch runs with uploads whose reads end at any later time *)
UploadPending ==
    \E id \in FreshIds, name \in BatchNames :
        Len(files) < MaxUploadFiles /\ handleFileUpload(id, name)

NextUpload ==
    \/ UploadPending
    \/ \E r \in reads : ReadDone(r)
    \/ \E id \in Ids : removeFile(id)
    \/ clearAll
    \/ processAll
    \/ PassStep(BatchTexts, BatchErrors)

SpecUpload == Init /\ [][NextUpload]_vars

(* The naming settings *)

setFolderPattern(value) ==
    /\ naming' = [naming EXCEPT !.folderPattern = value]
    /\ UNCHANGED <<files, isProcessing, pass, zips, timers, reads, formatted, alerted>>

setScreenshotPattern(value) ==
    /\ naming' = [naming EXCEPT !.screenshotPattern = value]
    /\ UNCHANGED <<files, isProcessing, pass, zips, timers, reads, formatted, alerted>>

setIsNumberingEnabled(checked) ==
    /\ naming' = [naming EXCEPT !.isNumberingEnabled = checked]
    /\ UNCHANGED <<files, isProcessing, pass, zips, timers, reads, formatted, alerted>>

\* the input is disabled while numbering is off
setStartIndex(value) ==
    /\ naming.isNumberingEnabled
    /\ naming' = [naming EXCEPT !.startIndex = value]
    /\ UNCHANGED <<files, isProcessing, pass, zips, timers, reads, formatted, alerted>>

(* Packaging a batch that has been run, under every naming setting *)

OtherName == <<"b", ".", "py">>
PngName == <<"a">> \o PngSuffix          \* a picture picked as a program
ZipNames == {PyName, OtherName, PngName}

\* What the two pattern inputs are set to: the defaults, one placeholder,
\* a fixed word, a path
ZipPatterns ==
    {DefaultNaming.folderPattern, DefaultNaming.screenshotPattern,
     NamePlaceholder, IndexPlaceholder, <<"lab">>,
     <<"lab", Slash>> \o NamePlaceholder}

\* parseInt(e.target.value) || 0: any integer, negative ones too
StartIndexes == -1..MaxStartIndex

\* An item after a run: its capture succeeded, or failed
CapturedFile(id, name) ==
    [LoadedFile(id, name) EXCEPT
        !.status = COMPLETED, !.output = "stdout", !.imageBlob = TRUE]

UncapturedFile(id, name) ==
    [LoadedFile(id, name) EXCEPT !.status = ERROR, !.output = "stdout"]

ZipBatches ==
    UNION {{fs \in [1..n -> UNION {{CapturedFile(id, name),
                                     UncapturedFile(id, name)}
                                    : id \in 1..n, name \in ZipNames}] :
               \A i \in 1..n : fs[i].id = i}
           : n \in 1..MaxZipFiles}

InitZip ==
    /\ files \in ZipBatches
    /\ isProcessing = FALSE
    /\ pass = [p \in PassIds |-> Idle]
    /\ zips = 0
    /\ timers = 0
    /\ reads = {}
    /\ naming = DefaultNaming
    /\ formatted = NoCall
    /\ alerted = FALSE

NextZip ==
    \/ \E value \in ZipPatterns : setFolderPattern(value)
    \/ \E value \in ZipPatterns : setScreenshotPattern(value)
    \/ \E checked \in BOOLEAN : setIsNumberingEnabled(checked)
    \/ \E value \in StartIndexes : setStartIndex(value)
    \/ downloadAll
    \/ ZipOk
    \/ ZipFail
    \/ ResetAfterDownload

SpecZip == InitZip /\ [][NextZip]_vars

(* formatName on its own, over patterns and file names put together from   *)
(* placeholders and other text                                             *)

PatternChunks ==
    {NamePlaceholder, ExtPlaceholder, FullPlaceholder, IndexPlaceholder,
     <<"_">>, <<"x">>}

NameChunks ==
    {<<"a">>, <<".">>, <<"py">>, IndexPlaceholder, ExtPlaceholder, <<"$&">>}

RECURSIVE Concat(_)
Concat(chunks) ==
    IF chunks = <<>> THEN <<>> ELSE Head(chunks) \o Concat(Tail(chunks))

Texts_(chunks, max) ==
    {Concat(c) : c \in UNION {[1..n -> chunks] : n \in 0..max}}

FormatPatterns ==
    Texts_(PatternChunks, MaxChunks)
        \cup {DefaultNaming.folderPattern, DefaultNaming.screenshotPattern}

\* handleFileUpload drops the names that start with a dot
FormatNames ==
    {name \in Texts_(NameChunks, MaxChunks + 1) :
        name # <<>> /\ Head(name) # "."}

NoResult == <<"undefined">>             \* formatName has not returned

InitFormat ==
    /\ files = <<>>
    /\ isProcessing = FALSE
    /\ pass = [p \in PassIds |-> Idle]
    /\ zips = 0
    /\ timers = 0
    /\ reads = {}
    /\ naming = DefaultNaming
    /\ \E pattern \in FormatPatterns, name \in FormatNames, index \in 0..1,
          startIndex \in StartIndexes, enabled \in BOOLEAN :
          formatted = [pattern |-> pattern, name |-> name, index |-> index,
                       startIndex |-> startIndex,
                       isNumberingEnabled |-> enabled, result |-> NoResult]
    /\ alerted = FALSE

\* formatName(pattern, file, index) is called and returns
callFormatName ==
    /\ formatted.result = NoResult
    /\ formatted' =
          [formatted EXCEPT !.result =
              formatName(formatted.pattern, formatted.name, formatted.index,
                         formatted.startIndex, formatted.isNumberingEnabled)]
    /\ UNCHANGED <<files, isProcessing, pass, zips, timers, reads, naming,
                   alerted>>

NextFormat == callFormatName

SpecFormat == InitFormat /\ [][NextFormat]_vars

(* generateOutput for one file, over every error shape and response text   *)
InitRetry ==
    /\ \E name \in RetryNames : files = <<LoadedFile(1, name)>>
    /\ isProcessing = FALSE
    /\ pass = [p \in PassIds |-> Idle]
    /\ zips = 0
    /\ timers = 0
    /\ reads = {}
    /\ naming = DefaultNaming
    /\ formatted = NoCall
    /\ alerted = FALSE

NextRetry ==
    \/ processAll
    \/ PassStep(Texts, AllErrors)

SpecRetry == InitRetry /\ [][NextRetry]_vars

---------------------------------------------------------------------------
(* Properties *)

\* The external calls in flight: remote requests and snapshot captures
Calling == {p \in PassIds : pass[p].pc = "call"}
Capturing == {p \in PassIds : pass[p].pc = "capture"}

\* Ids a pass in flight still has to finish, the current one included
Queued(p) == {pass[p].filesToProcess[i].id : i \in 1..Len(pass[p].filesToProcess)}

(* C1: single flight.  Under any interleaving of processAll invocations    *)
(* with uploads and removals, an invocation made while isProcessing is     *)
(* true starts no pass and changes nothing, so at most one pass is ever in *)
(* flight and no item is driven by two passes at once.                     *)
C1_SingleFlight ==
    [][ /\ isProcessing => (processAll => UNCHANGED vars)
        /\ isProcessing => InFlight' \subseteq InFlight
        /\ Cardinality(InFlight') <= 1
        /\ \A p, q \in InFlight' : fileId(p)' = fileId(q)' => p = q ]_vars

\* A run is in flight and an item it did not pick up is waiting: a second
\* invocation would have work to do, and is rejected.
C1_Witness ==
    /\ isProcessing
    /\ Cardinality(InFlight) = 1
    /\ \E i \in 1..Len(files) :
          /\ files[i].status = PENDING
          /\ \A p \in InFlight : files[i].id \notin Queued(p)

(* C2: the flag is owned by the batch run: whenever a pass is in flight    *)
(* isProcessing is true, and no step other than a pass's own start and end *)
(* changes the flag while a pass is in flight.                             *)
C2_FlagOwnedByRun ==
    [][ /\ InFlight' # {} => isProcessing'
        /\ (InFlight # {} /\ isProcessing' # isProcessing)
              => InFlight' # InFlight ]_vars

(* C3: at most one external call is in flight at any time: never two       *)
(* remote requests at once, never a request overlapping a capture.         *)
C3_OneExternalCall == Cardinality(Calling \cup Capturing) <= 1

\* The transitions of one item's status made by one step
Transitions ==
    {<<files[i].status, files'[i].status>> :
        i \in {j \in 1..Len(files) :
                 /\ Len(files') = Len(files)
                 /\ files'[j].id = files[j].id
                 /\ files'[j].status # files[j].status}}

(* C4 as claimed: over any sequence of batch runs the only transitions an  *)
(* item makes are PENDING->RUNNING, RUNNING->COMPLETED and RUNNING->ERROR.  *)
C4_Original ==
    [][Transitions \subseteq
          {<<PENDING, RUNNING>>, <<RUNNING, COMPLETED>>, <<RUNNING, ERROR>>}]_vars

(* C4 as amended: over any sequence of uploads, removals and batch runs   *)
(* (items with distinct identifiers, no packaging in between) the only     *)
(* transitions an item makes are PENDING->RUNNING, RUNNING->COMPLETED,     *)
(* COMPLETED->ERROR (the capture threw after the output was attached) and  *)
(* ERROR->RUNNING (a later run takes up every item that is not COMPLETED). *)
C4_Transitions ==
    [][Transitions \subseteq
          {<<PENDING, RUNNING>>, <<RUNNING, COMPLETED>>,
           <<COMPLETED, ERROR>>, <<ERROR, RUNNING>>}]_vars

\* An item whose capture failed in an earlier run is running again
C4_Witness ==
    \E i \in 1..Len(files) :
        /\ files[i].status = RUNNING
        /\ files[i].output # NoOutput
        /\ \E p \in InFlight : fileId(p) = files[i].id /\ pass[p].pc = "call"

\* An item at rest, after a run: untouched, captured, or failed at capture
Captured(f) == f.status = COMPLETED /\ f.output # NoOutput /\ f.imageBlob
CaptureFailed(f) == f.status = ERROR /\ f.output # NoOutput /\ ~f.imageBlob
Untouched(f) == f.status = PENDING /\ f.output = NoOutput /\ ~f.imageBlob

(* C5: within one batch run a capture failure is isolated to its item.     *)
(* The step in which a capture returns or throws changes only the item it  *)
(* was made for: on a throw that item becomes ERROR, keeps its output and  *)
(* gets no image; on success it gets its image and stays COMPLETED.  The   *)
(* capture is not retried and the loop goes on to its pacing delay with    *)
(* the rest of its list.  So after a run every item is untouched, or       *)
(* COMPLETED with output and image, or ERROR with output and no image.     *)
C5_CaptureFailureIsolated ==
    [][ /\ \A p \in PassIds :
              (pass[p].pc = "capture" /\ pass'[p] # pass[p]) =>
                 /\ pass'[p] = [pass[p] EXCEPT !.pc = "pace"]
                 /\ Len(files') = Len(files)
                 /\ \A i \in 1..Len(files) :
                       IF files[i].id # fileId(p)
                       THEN files'[i] = files[i]
                       ELSE \/ /\ files'[i] = [files[i] EXCEPT !.imageBlob = TRUE]
                               /\ Captured(files'[i])
                            \/ /\ files'[i] = [files[i] EXCEPT !.status = ERROR]
                               /\ CaptureFailed(files'[i])
        /\ InFlight' = {} =>
              \A i \in 1..Len(files') :
                  Untouched(files'[i]) \/ Captured(files'[i]) \/ CaptureFailed(files'[i])
      ]_vars

\* A run is over: the capture of the second of three items failed, the
\* items before and after it are COMPLETED with their images.
C5_Witness ==
    /\ InFlight = {}
    /\ Len(files) = 3
    /\ Captured(files[1])
    /\ CaptureFailed(files[2])
    /\ Captured(files[3])

\* Passes whose generateOutput has returned: with a success value, or with
\* a diagnostic after the failure `err`
Succeeded == {p \in PassIds : pass[p].pc = "settle" /\ pass[p].err = NoErr}
Failed == {p \in PassIds : pass[p].pc = "settle" /\ pass[p].err # NoErr}
Retrying == {p \in PassIds : pass[p].pc = "backoff"}

SuccessValues == {"stdout", NoOutputGenerated, ConsoleWasCleared}
Diagnostics == {QuotaDiagnostic, GenericDiagnostic}

(* C6: a call that fails rate-limited k times (k <= 3) and then succeeds   *)
(* returns the success value after k+1 attempts and k delays, the delay    *)
(* before attempt j being 1500 * 2^(j-2) ms; never more than 4 attempts    *)
(* are made for one item in one pass.                                      *)
C6_RetryPolicy ==
    \A p \in PassIds :
        /\ pass[p].attempt <= 4
        /\ p \in Succeeded =>
              /\ pass[p].output \in SuccessValues
              /\ Len(pass[p].delays) = pass[p].attempt - 1
              /\ \A j \in 2..pass[p].attempt :
                    pass[p].delays[j - 1] = 1500 * 2^(j - 2)

\* Three rate-limited failures, then success on the fourth attempt
C6_Witness ==
    \E p \in Succeeded :
        /\ pass[p].attempt = 4
        /\ pass[p].delays = <<1500, 3000, 6000>>
        /\ pass[p].output = "stdout"

(* C7: a failure that is not rate-limited is never retried: the step in    *)
(* which it is caught leaves the retry loop at once, with no delay added   *)
(* and no further attempt, whether it is the first attempt or comes after  *)
(* rate-limited failures.                                                  *)
C7_NoRetryOfOtherFailures ==
    [][\A p \in PassIds :
          (/\ pass[p].pc = "call"
           /\ pass'[p].err # NoErr
           /\ ~isRateLimited(pass'[p].err)) =>
              /\ pass'[p].pc = "settle"
              /\ pass'[p].attempt = pass[p].attempt
              /\ pass'[p].delays = pass[p].delays
              /\ Len(pass[p].delays) = pass[p].attempt - 1]_vars

\* A failure that is not rate-limited on the third attempt, after two
\* rate-limited ones
C7_Witness ==
    \E p \in Failed :
        /\ ~isRateLimited(pass[p].err)
        /\ pass[p].attempt = 3
        /\ pass[p].delays = <<1500, 3000>>

(* C8: the diagnostic agrees with the retry classification: an error       *)
(* classified as rate-limited that ends the loop is reported with the      *)
(* quota diagnostic, an error classified as not rate-limited with the      *)
(* generic one.                                                            *)
C8_DiagnosticAgrees ==
    \A p \in Failed :
        pass[p].output =
            IF isRateLimited(pass[p].err) THEN QuotaDiagnostic
            ELSE GenericDiagnostic

(* C9: generateOutput never throws: whatever the remote call does, the     *)
(* step that ends an attempt either starts a backoff or returns a string,  *)
(* a success value or a diagnostic, and in the same step the item goes     *)
(* from RUNNING to COMPLETED with that string as its output.               *)
C9_NeverThrows ==
    [][\A p \in PassIds :
          (pass[p].pc = "call" /\ pass'[p] # pass[p]) =>
              \/ pass'[p].pc = "backoff"
              \/ /\ pass'[p].pc = "settle"
                 /\ IF pass'[p].err = NoErr
                    THEN pass'[p].output \in SuccessValues
                    ELSE pass'[p].output \in Diagnostics
                 /\ Len(files') = Len(files)
                 /\ \E i \in 1..Len(files) : files[i].id = fileId(p)
                 /\ \A i \in 1..Len(files) :
                       files[i].id = fileId(p) =>
                          /\ files[i].status = RUNNING
                          /\ files'[i] =
                                [files[i] EXCEPT !.status = COMPLETED,
                                                 !.output = pass'[p].output]
      ]_vars

\* The fourth attempt failed rate-limited: the item is COMPLETED with the
\* quota diagnostic
C9_Witness ==
    \E p \in Failed :
        /\ pass[p].attempt = 4
        /\ \E i \in 1..Len(files) :
              /\ files[i].id = fileId(p)
              /\ files[i].status = COMPLETED
              /\ files[i].output = QuotaDiagnostic

\* The five fields getErrorStatus reads, in its order
Fields(e) ==
    <<e.status, e.code, e.response_status, e.error_code, e.error_status>>

AnyFieldIs429(e) == \E i \in 1..5 : Fields(e)[i] = Num(429)

FirstPresentFieldIs429(e) ==
    \E i \in 1..5 :
        /\ Fields(e)[i] = Num(429)
        /\ \A j \in 1..(i - 1) : Fields(e)[j] = Absent

\* A failed attempt was classified: as rate-limited when a backoff follows,
\* as not rate-limited when an attempt before the last ends the loop
ClassifiedAs(R(_)) ==
    /\ \A p \in Retrying : R(pass[p].err)
    /\ \A p \in Failed : pass[p].attempt < 4 => ~R(pass[p].err)

C10_ClaimedRule(e) == AnyFieldIs429(e) \/ e.has429 \/ e.hasResourceExhausted

C10_AmendedRule(e) ==
    FirstPresentFieldIs429(e) \/ e.has429 \/ e.hasResourceExhausted

(* C10 as claimed: a failed attempt is classified as rate-limited whenever *)
(* any one of status, code, response.status, error.code, error.status is   *)
(* the number 429, whatever the other fields hold, or the string form      *)
(* contains "429" or "RESOURCE_EXHAUSTED", and as not rate-limited         *)
(* otherwise.                                                              *)
C10_Original == ClassifiedAs(C10_ClaimedRule)

(* C10 as amended: a failed attempt is classified as rate-limited exactly  *)
(* when the first of status, code, response.status, error.code,            *)
(* error.status that is neither null nor undefined is the number 429, or   *)
(* the string form contains "429" or "RESOURCE_EXHAUSTED".                 *)
C10_Classification == ClassifiedAs(C10_AmendedRule)

\* Retried on the strength of a later field alone: status is absent, code
\* is 429, the string form has neither marker
C10_Witness ==
    \E p \in Retrying :
        /\ pass[p].err.status = Absent
        /\ pass[p].err.code = Num(429)
        /\ ~pass[p].err.has429
        /\ ~pass[p].err.hasResourceExhausted

\* A step in which an invocation of processAll starts pass p
Starts(p) == pass[p].pc = "idle" /\ pass'[p].pc # "idle"

\* Ids in the collection that are COMPLETED
CompletedIds == {files[i].id : i \in {j \in 1..Len(files) : files[j].status = COMPLETED}}

AllCompleted == \A i \in 1..Len(files) : files[i].status = COMPLETED

(* C11: items already COMPLETED when a batch run starts are skipped: the   *)
(* run queues none of them, and a pass never takes up an id that was not   *)
(* in its list at the start, so no remote call and no capture is made for  *)
(* them and they stay as they are while the run goes on; a run started     *)
(* when every item is COMPLETED starts no pass and changes nothing.        *)
C11_CompletedSkipped ==
    [][ /\ \A p \in PassIds :
              /\ Starts(p) => Queued(p)' \cap CompletedIds = {}
              /\ ~Starts(p) => Queued(p)' \subseteq Queued(p)
        /\ \A i \in 1..Len(files) :
              (/\ files[i].status = COMPLETED
               /\ \A p \in InFlight : files[i].id \notin Queued(p)
               /\ \E p \in PassIds : pass'[p] # pass[p])
                  => /\ Len(files') = Len(files)
                     /\ files'[i] = files[i]
        /\ (AllCompleted /\ processAll) => UNCHANGED vars ]_vars

\* A run is making a remote call for one item while another, COMPLETED with
\* its image before the run started, is not in the run's list
C11_Witness ==
    \E p \in InFlight :
        /\ pass[p].pc = "call"
        /\ \E i \in 1..Len(files) :
              /\ files[i].status = COMPLETED
              /\ files[i].imageBlob
              /\ files[i].id \notin Queued(p)

\* Positions of the items that are not COMPLETED
Open == {i \in 1..Len(files) : files[i].status # COMPLETED}

\* q lists the ids of the items at the positions in Open, in their order
InEnqueueOrder(q) ==
    /\ Len(q) = Cardinality(Open)
    /\ \A i \in Open : q[Cardinality({j \in Open : j < i}) + 1].id = files[i].id

\* The awaits of one item's processing, in the order they are reached
FollowsInOrder(from, to) ==
    \/ from = "call" /\ to \in {"call", "backoff", "settle"}
    \/ from = "backoff" /\ to \in {"backoff", "call"}
    \/ from = "settle" /\ to \in {"settle", "capture", "pace"}
    \/ from = "capture" /\ to \in {"capture", "pace"}
    \/ from = "pace" /\ to = "pace"

NoneRunning == \A i \in 1..Len(files) : files[i].status # RUNNING

(* C14: if every remote call and every capture eventually returns, every   *)
(* started batch run eventually comes to the end of its list and clears    *)
(* the flag, also when calls fail or items are removed mid-run: a pass in  *)
(* flight leads to no pass in flight with isProcessing false; a pass ends  *)
(* only by running out of its list, and then no item is RUNNING.           *)
C14_Termination ==
    /\ (InFlight # {}) ~> (InFlight = {} /\ ~isProcessing)
    /\ [][\A p \in PassIds :
            (pass[p].pc # "idle" /\ pass'[p].pc = "idle") =>
                /\ pass[p].pc = "pace"
                /\ Len(pass[p].filesToProcess) = 1
                /\ ~isProcessing']_vars
    /\ [](InFlight = {} => NoneRunning)

\* A run is over in which a call failed and a capture failed: the flag is
\* clear, one item holds a diagnostic, one is ERROR, none is RUNNING
C14_Witness ==
    /\ InFlight = {}
    /\ ~isProcessing
    /\ \E i, j \in 1..Len(files) :
          /\ files[i].output \in Diagnostics
          /\ files[j].status = ERROR

\* Passes whose current item is no longer in the collection
Orphaned == {p \in InFlight : fileId(p) \notin IdsOf(files)}

(* C15: a write-back to a removed item is a no-op: a step of a pass whose  *)
(* current item has been removed (by remove one or clear all) leaves the   *)
(* collection as it is, unless the step starts the pass's next item; and   *)
(* no step of a pass adds or drops an item or changes an item other than   *)
(* the one the pass is at.                                                 *)
C15_RemovedWriteBackNoOp ==
    [][\A p \in PassIds :
          (pass[p].pc # "idle" /\ pass'[p] # pass[p]) =>
              /\ Len(files') = Len(files)
              /\ \A i \in 1..Len(files) :
                    files'[i] # files[i] =>
                        /\ files'[i].id = files[i].id
                        /\ \/ files[i].id = fileId(p) /\ pass[p].pc # "pace"
                           \/ /\ pass[p].pc = "pace"
                              /\ pass'[p].pc = "call"
                              /\ files[i].id = fileId(p)'
              /\ (p \in Orphaned /\ pass[p].pc # "pace") => files' = files]_vars

\* The output write-back of a removed item has happened (the pass is at
\* its settle delay) and the items that remain are as they were
C15_Witness ==
    \E p \in Orphaned :
        /\ pass[p].pc = "settle"
        /\ Len(files) = 2
        /\ Captured(files[1])
        /\ Untouched(files[2])

(* C16: in every reachable state every item whose status is COMPLETED has  *)
(* an output text.                                                         *)
C16_CompletedHasOutput ==
    \A i \in 1..Len(files) :
        files[i].status = COMPLETED =>
            /\ files[i].output # NoOutput
            /\ files[i].output \in SuccessValues \cup Diagnostics

\* An item is COMPLETED with the generic diagnostic as its output, before
\* any capture
C16_Witness ==
    \E i \in 1..Len(files) :
        /\ files[i].status = COMPLETED
        /\ files[i].output = GenericDiagnostic
        /\ ~files[i].imageBlob

\* The item a pass is at, where it is still in the collection
ItemsOf(p) == {i \in 1..Len(files) : files[i].id = fileId(p)}

(* C17: per-item step order: a capture is started only when the settle     *)
(* delay that follows the output write-back is over; while it runs, the    *)
(* item is COMPLETED with its output attached; when it returns it is not   *)
(* started again for this processing of the item (the pass goes on to its  *)
(* pacing delay); on success the image is attached and the status stays    *)
(* COMPLETED.                                                              *)
C17_CaptureAfterOutput ==
    [][\A p \in PassIds :
          /\ (pass[p].pc # "capture" /\ pass'[p].pc = "capture") =>
                /\ pass[p].pc = "settle"
                /\ pass'[p].filesToProcess = pass[p].filesToProcess
                /\ ItemsOf(p) # {}
          /\ pass'[p].pc = "capture" =>
                \A i \in ItemsOf(p)' :
                    /\ files'[i].status = COMPLETED
                    /\ files'[i].output \in SuccessValues \cup Diagnostics
          /\ (pass[p].pc = "capture" /\ pass'[p] # pass[p]) =>
                /\ pass'[p].pc = "pace"
                /\ \A i \in ItemsOf(p) :
                      files'[i].imageBlob =>
                          files'[i] = [files[i] EXCEPT !.imageBlob = TRUE]
          /\ (pass[p].pc = "pace" /\ pass'[p].pc \notin {"pace", "idle"}) =>
                /\ pass'[p].pc = "call"
                /\ pass'[p].filesToProcess = Tail(pass[p].filesToProcess)]_vars

\* A capture has succeeded: the pass is at its pacing delay and its item is
\* COMPLETED with output and image
C17_Witness ==
    \E p \in InFlight :
        /\ pass[p].pc = "pace"
        /\ \E i \in ItemsOf(p) : Captured(files[i])

(* C12: the remote call is never made for an item whose content has not    *)
(* been read: the prompt of every call in flight carries the content of    *)
(* the file picked for that item, not the empty placeholder.               *)
C12_PromptHasContent ==
    \A p \in InFlight : pass[p].prompt = ContentOf(fileId(p))

(* The archive of a packaging step: what downloadAll's loop has written    *)
(* when it reaches generateAsync, from the files and the naming settings   *)
(* of the click.                                                           *)

Zipped == FillZip(files, Len(files), naming)

folderNameOf(i) ==
    formatName(naming.folderPattern, files[i].name, i - 1,
               naming.startIndex, naming.isNumberingEnabled)

screenshotEntryOf(i) ==
    formatName(naming.screenshotPattern, files[i].name, i - 1,
               naming.startIndex, naming.isNumberingEnabled) \o PngSuffix

EntriesIn(zip, folderName) == {e \in zip.entries : e.folder = folderName}

TopLevelFolders(zip) == {f \in zip.folders : \A k \in 1..Len(f) : f[k] # Slash}

\* The folder of item i exists and holds the item's content under the
\* item's file name
HoldsContent(zip, i) ==
    /\ folderNameOf(i) \in zip.folders
    /\ [folder |-> folderNameOf(i), name |-> files[i].name,
        data |-> [kind |-> "content", of |-> files[i].id,
                  content |-> files[i].content]] \in zip.entries

HoldsScreenshot(zip, i) ==
    \E e \in EntriesIn(zip, folderNameOf(i)) : e.name = screenshotEntryOf(i)

\* Item i has a folder of its own and its two entries have two names
Alone(i) ==
    /\ folderNameOf(i) # <<>>
    /\ \A j \in 1..Len(files) : j # i => folderNameOf(j) # folderNameOf(i)
    /\ screenshotEntryOf(i) # files[i].name

Flat(i) == \A k \in 1..Len(folderNameOf(i)) : folderNameOf(i)[k] # Slash

(* C18, as claimed: for each item i in batch order the archive holds a     *)
(* folder named formatName(folderPattern, item_i, i) that always contains  *)
(* the item's original content under its original filename, and contains   *)
(* an entry formatName(screenshotPattern, item_i, i) + ".png" if and only  *)
(* if the item carries a captured image.                                   *)
C18_Original ==
    [][downloadAll =>
          \A i \in 1..Len(files) :
              /\ HoldsContent(Zipped, i)
              /\ HoldsScreenshot(Zipped, i) <=> files[i].imageBlob]_vars

(* C18, amended: the layout holds for each item whose folder name is not   *)
(* empty and not the folder name of another item of the batch, and whose   *)
(* screenshot entry name differs from its filename: the archive holds      *)
(* that folder, the folder contains the item's content under the item's    *)
(* filename, and it contains the screenshot entry if and only if the item  *)
(* carries a captured image.                                               *)
C18_ArchiveLayout ==
    [][downloadAll =>
          \A i \in 1..Len(files) :
              Alone(i) =>
                  /\ HoldsContent(Zipped, i)
                  /\ HoldsScreenshot(Zipped, i) <=> files[i].imageBlob]_vars

\* A packaging is under way for two items in folders of their own, one
\* with an image and one without, and the zip holds both layouts
C18_Witness ==
    /\ zips > 0
    /\ Len(files) = 2
    /\ \A i \in 1..2 : Alone(i) /\ HoldsContent(Zipped, i)
    /\ \E i, j \in 1..2 :
          /\ files[i].imageBlob /\ HoldsScreenshot(Zipped, i)
          /\ ~files[j].imageBlob /\ ~HoldsScreenshot(Zipped, j)

(* C19, as claimed: building an archive from N items yields exactly N      *)
(* top-level folders per the naming config, each folder of an              *)
(* image-bearing item containing exactly 2 files and each folder of an     *)
(* item without image exactly 1.                                           *)
C19_Original ==
    [][downloadAll =>
          /\ Cardinality(TopLevelFolders(Zipped)) = Len(files)
          /\ \A i \in 1..Len(files) :
                Cardinality(EntriesIn(Zipped, folderNameOf(i))) =
                    IF files[i].imageBlob THEN 2 ELSE 1]_vars

(* C19, amended: the counts hold when the N items resolve to N different,  *)
(* non-empty folder names without a path separator and no item's           *)
(* screenshot entry name equals its filename: then the archive has         *)
(* exactly N top-level folders, the folder of an image-bearing item holds  *)
(* exactly 2 files and the folder of an item without image exactly 1.      *)
C19_ArchiveCounts ==
    [][(downloadAll /\ \A i \in 1..Len(files) : Alone(i) /\ Flat(i)) =>
          /\ Cardinality(TopLevelFolders(Zipped)) = Len(files)
          /\ \A i \in 1..Len(files) :
                Cardinality(EntriesIn(Zipped, folderNameOf(i))) =
                    IF files[i].imageBlob THEN 2 ELSE 1]_vars

\* A packaging is under way for two items in flat folders of their own,
\* one with an image and one without: 2 folders, with 2 files and 1 file
C19_Witness ==
    /\ zips > 0
    /\ Len(files) = 2
    /\ \A i \in 1..2 : Alone(i) /\ Flat(i)
    /\ files[1].imageBlob /\ ~files[2].imageBlob
    /\ Cardinality(TopLevelFolders(Zipped)) = 2
    /\ Cardinality(EntriesIn(Zipped, folderNameOf(1))) = 2
    /\ Cardinality(EntriesIn(Zipped, folderNameOf(2))) = 1

\* str.includes(sub)
Includes(str, sub) ==
    \E k \in 1..(Len(str) - Len(sub) + 1) :
        SubSeq(str, k, k + Len(sub) - 1) = sub

(* C20: for every pattern that does not contain [index] and every          *)
(* filename, formatName's output is the same for all values of index,      *)
(* startIndex and numberingEnabled: what a call returned is what any       *)
(* other index, start index and numbering flag would have given.           *)
C20_IndexIndependent ==
    (formatted # NoCall /\ formatted.result # NoResult
        /\ ~Includes(formatted.pattern, IndexPlaceholder)) =>
        \A index \in 0..1, startIndex \in StartIndexes, enabled \in BOOLEAN :
            formatName(formatted.pattern, formatted.name, index, startIndex,
                       enabled) = formatted.result

(* The three filename placeholders as the naming rules state them *)

\* The filename without its final extension segment, the whole filename
\* if it has no dot
StatedName(name) ==
    IF Dots(name) = {} THEN name
    ELSE LET last == CHOOSE i \in Dots(name) : \A j \in Dots(name) : j <= i
         IN  SubSeq(name, 1, last - 1)

\* The substring after the last dot, the empty string if there is no dot
StatedExt(name) ==
    IF Dots(name) = {} THEN <<>>
    ELSE LET last == CHOOSE i \in Dots(name) : \A j \in Dots(name) : j <= i
         IN  SubSeq(name, last + 1, Len(name))

\* Every occurrence of the three placeholders in the pattern replaced by
\* its stated value, the rest of the pattern kept
RECURSIVE StatedExpansion(_, _)
StatedExpansion(pattern, name) ==
    IF Len(pattern) < 3 THEN pattern
    ELSE LET head == SubSeq(pattern, 1, 3)
             rest == SubSeq(pattern, 4, Len(pattern))
         IN  IF head = NamePlaceholder
             THEN StatedName(name) \o StatedExpansion(rest, name)
             ELSE IF head = ExtPlaceholder
             THEN StatedExt(name) \o StatedExpansion(rest, name)
             ELSE IF head = FullPlaceholder
             THEN name \o StatedExpansion(rest, name)
             ELSE <<Head(pattern)>> \o StatedExpansion(Tail(pattern), name)

Returned == formatted # NoCall /\ formatted.result # NoResult

(* C21: in what formatName returns for a pattern without [index], every    *)
(* [name] has become the filename without its final extension segment      *)
(* (the whole filename if it has no dot), every [ext] the substring after  *)
(* the last dot (the empty string if the filename has no dot) and every    *)
(* [full] the unmodified filename.                                         *)
C21_NameExtFull ==
    (Returned /\ ~Includes(formatted.pattern, IndexPlaceholder)) =>
        formatted.result = StatedExpansion(formatted.pattern, formatted.name)

\* The part of C21 that the code keeps: file names that have a dot and
\* hold no placeholder and no replacement pattern of their own
PlainDotted(name) ==
    /\ Dots(name) # {}
    /\ \A k \in 1..Len(name) : name[k] \notin {"[", "]", "$&"}

C21_PlainDottedNames ==
    (Returned /\ ~Includes(formatted.pattern, IndexPlaceholder)
        /\ PlainDotted(formatted.name)) =>
        formatted.result = StatedExpansion(formatted.pattern, formatted.name)

(* The [index] rule as the naming rules state it, position by position:   *)
(* an occurrence of [index] in the text gives the number, or nothing when  *)
(* numbering is off, and then the separator right after it goes too.       *)
StatedIndexRule(text, number, enabled) ==
    LET occurrences ==
            {k \in 1..Len(text) :
                k + 2 <= Len(text) /\ SubSeq(text, k, k + 2) = IndexPlaceholder}
        piece[k \in 1..Len(text)] ==
            IF k \in occurrences
            THEN IF enabled THEN <<ToString(number)>> ELSE <<>>
            ELSE IF (k - 1) \in occurrences \/ (k - 2) \in occurrences
            THEN <<>>
            ELSE IF ~enabled /\ (k - 3) \in occurrences
                        /\ text[k] \in Separators
            THEN <<>>
            ELSE <<text[k]>>
        join[k \in 0..Len(text)] ==
            IF k = 0 THEN <<>> ELSE join[k - 1] \o piece[k]
    IN  join[Len(text)]

C23_FailureLeavesBatch ==
    [][/\ zips' < zips =>
            /\ files' = files
            /\ isProcessing' = isProcessing
            /\ \/ timers' = timers /\ alerted'
               \/ timers' = timers + 1 /\ alerted' = alerted
       /\ (alerted' /\ ~alerted) => (zips' < zips /\ timers' = timers)
       /\ timers' > timers => (zips' < zips /\ alerted' = alerted)
       /\ timers' < timers => (timers > 0 /\ zips' = zips)]_vars

\* A packaging has failed: the alert is up, no reset is scheduled and the
\* batch still holds its captured item
C23_Witness ==
    /\ alerted
    /\ zips = 0
    /\ timers = 0
    /\ HasImage

(* C24: item identifiers are unique within a batch: after any sequence of *)
(* uploads and removals no two items of the collection share an            *)
(* identifier, so that a write-back addressed to one identifier updates    *)
(* at most one item.                                                       *)
C24_UniqueIds ==
    \A i, j \in 1..Len(files) : files[i].id = files[j].id => i = j

(* C25: once all file reads of the uploads have completed, every item's   *)
(* content is the text of the file the item was created from, whatever     *)
(* order the reads complete in and also when two items have the same       *)
(* filename.                                                               *)
C25_ContentOwnership ==
    reads = {} =>
        \A i \in 1..Len(files) : files[i].content = ContentOf(files[i].id)

RunningItems == {i \in 1..Len(files) : files[i].status = RUNNING}

(* C26: in every reachable state at most one item has status RUNNING, and  *)
(* whenever no batch run is in flight no item has status RUNNING.          *)
C26_AtMostOneRunning ==
    /\ Cardinality(RunningItems) <= 1
    /\ InFlight = {} => RunningItems = {}

(* C27: in every reachable state every item that carries a captured       *)
(* image has status COMPLETED and an output; an item in PENDING, RUNNING   *)
(* or ERROR never carries an image.                                        *)
C27_ImageImpliesCompleted ==
    \A i \in 1..Len(files) :
        files[i].imageBlob =>
            files[i].status = COMPLETED /\ files[i].output # NoOutput

\* The identifiers the runs in flight hold in their lists
ListedIds == UNION {Queued(p) : p \in InFlight}

\* The items that wait outside every run in flight: uploaded after the
\* run took its list, or while none was in flight
WaitingOutside ==
    {i \in 1..Len(files) : Untouched(files[i]) /\ files[i].id \notin ListedIds}

====
